---------------------------- MODULE Spec2Model ----------------------------
(***************************************************************************)
(* A model of the IQ-Fit packing solver: shape geometry (shapes.py), the   *)
(* Board occupancy model and the MIP enumeration loop (iq_solver.py).      *)
(*                                                                         *)
(* Cells, offsets and anchors are pairs <<row, col>>.  A footprint         *)
(* (TPointSet) is a set of such pairs.                                     *)
(***************************************************************************)
EXTENDS Integers, Sequences, FiniteSets, TLC

VARIABLES
    \* ---- ShapeTemplate.layout_rotated exercised on its own
    layout0,              \* the footprint the rotations started from
    layout,               \* the footprint after the rotations applied so far
    applied,              \* the angles applied so far, in order
    \* ---- Board.is_valid_placement exercised on its own
    board,                \* a Board, built by appends
    valid,                \* <<>>, or <<v>> once is_valid_placement() returned v
    \* ---- mip_solver
    init_board,           \* argument init_board
    shapes_to_place,      \* argument shapes_to_place (a list of ShapeTemplate)
    max_solutions,        \* argument max_solutions
    allow_holes,          \* argument allow_holes
    pc,                   \* position in mip_solver
    problem,              \* the LpProblem, as the set of 0/1 assignments it admits
    status,               \* LpStatus of the last problem.solve(), "unset" before it
    x,                    \* the decision variables valued 1 by the last solve
    selected_positions,   \* list built by the read-back of the last solve
    solutions,            \* list of Boards collected so far
    used_solutions_cuts,  \* names (indices) of the cuts added so far
    first_status,         \* history: the status the first problem.solve() reported
    built_problem,        \* history: the problem as built, before any cut
    result,               \* what mip_solver returned: kind "running", "None" or "list"
    \* ---- brute_force_solver, called on the arguments of mip_solver
    brute_force_result    \* what it returned: kind "running", "None" or "Board"

rotvars == <<layout0, layout, applied>>
boardvars == <<board, valid>>
mipvars == <<init_board, shapes_to_place, max_solutions, allow_holes, pc, problem,
             status, x, selected_positions, solutions, used_solutions_cuts, first_status,
             built_problem, result>>
brutevars == <<brute_force_result>>
vars == <<rotvars, boardvars, mipvars, brutevars>>

-----------------------------------------------------------------------------
(* Bounds of the model *)

\* side of the square in which the footprints given to layout_rotated are drawn
FootSide == 2
\* number of successive rotations applied to one footprint
MaxTurns == 4
\* number of cells of the largest board (rows * cols <= MaxCells)
MaxCells == 4
\* number of ShapeInstances appended to the Board whose validity is checked
MaxPlaced == 2
\* largest max_solutions
MaxSolutions == 2
\* the 0/1 assignments searched value at most MaxOnes variables of a shape 1
MaxOnes == 2

-----------------------------------------------------------------------------
(* Small helpers *)

Min(S) == CHOOSE m \in S : \A n \in S : m <= n
Max(S) == CHOOSE m \in S : \A n \in S : m >= n

\* the element of a set of one element: TheOnly({F(v) : v \in {e}}) is F(e),
\* with e evaluated once
TheOnly(A) == CHOOSE a \in A : TRUE

RECURSIVE SumSeq(_)
SumSeq(s) == IF s = <<>> THEN 0 ELSE Head(s) + SumSeq(Tail(s))

-----------------------------------------------------------------------------
(* shapes.py : ShapeTemplate *)

VALID_ROTATIONS == {0, 90, 180, 270}

\* the coordinate transform: a mutation that writes the 90 degree turn as a
\* transpose
RotatePoint_Transpose(p, rotation) ==
    CASE rotation = 90  -> <<p[2], p[1]>>
      [] rotation = 180 -> <<-p[1], -p[2]>>
      [] rotation = 270 -> <<-p[2], p[1]>>

\* the coordinate transform of one offset (the if/elif chain of layout_rotated)
RotatePoint(p, rotation) ==
    CASE rotation = 90  -> <<p[2], -p[1]>>
      [] rotation = 180 -> <<-p[1], -p[2]>>
      [] rotation = 270 -> <<-p[2], p[1]>>

\* ShapeTemplate.layout_rotated, for rotation in VALID_ROTATIONS and a
\* non-empty layout (any other rotation, and min() of an empty set, raise
\* ValueError).  Rotation 0 returns the layout untouched, not renormalized.
layout_rotated(lay, rotation) ==
    IF rotation = 0 THEN lay
    ELSE LET rotated == {RotatePoint(p, rotation) : p \in lay}
             min_row == Min({p[1] : p \in rotated})
             min_col == Min({p[2] : p \in rotated})
         IN  {<<p[1] - min_row, p[2] - min_col>> : p \in rotated}

\* the layouts of the ten catalogue shapes of shapes.py, SHAPES_ALL
SHAPES_ALL_LAYOUTS ==
    { {<<0,0>>, <<1,0>>, <<2,0>>, <<2,1>>},
      {<<0,0>>, <<0,1>>, <<1,1>>, <<2,0>>, <<2,1>>},
      {<<0,1>>, <<1,0>>, <<1,1>>, <<2,1>>},
      {<<0,0>>, <<1,0>>, <<1,1>>, <<2,0>>, <<2,1>>},
      {<<0,0>>, <<0,1>>, <<1,0>>, <<2,0>>, <<2,1>>},
      {<<0,0>>, <<1,0>>, <<2,0>>, <<3,0>>, <<3,1>>},
      {<<0,1>>, <<1,0>>, <<1,1>>, <<2,1>>, <<3,0>>, <<3,1>>},
      {<<0,0>>, <<0,1>>, <<1,1>>, <<2,1>>, <<3,0>>, <<3,1>>},
      {<<0,0>>, <<1,0>>, <<2,0>>, <<2,1>>, <<3,0>>},
      {<<0,1>>, <<1,0>>, <<1,1>>, <<2,0>>, <<2,1>>, <<3,1>>},
      {<<0,0>>, <<0,1>>, <<1,1>>, <<2,0>>, <<2,1>>, <<3,1>>},
      {<<0,0>>, <<0,1>>, <<1,0>>, <<2,0>>, <<3,0>>},
      {<<0,1>>, <<1,1>>, <<2,0>>, <<2,1>>, <<3,0>>, <<3,1>>},
      {<<0,1>>, <<1,1>>, <<2,0>>, <<2,1>>, <<3,1>>},
      {<<0,0>>, <<1,0>>, <<2,0>>, <<2,1>>, <<3,0>>, <<3,1>>},
      {<<0,1>>, <<1,1>>, <<2,0>>, <<2,1>>},
      {<<0,0>>, <<0,1>>, <<1,0>>, <<1,1>>, <<2,0>>} }

\* a footprint is normalized when its bounding box touches (0,0)
IsNormalized(lay) ==
    /\ lay # {}
    /\ Min({p[1] : p \in lay}) = 0
    /\ Min({p[2] : p \in lay}) = 0

\* the normalized footprints the rotation is exercised on: every one inside a
\* FootSide x FootSide square, and the catalogue's
Footprints ==
    {f \in SUBSET ((0 .. FootSide - 1) \X (0 .. FootSide - 1)) : IsNormalized(f)}
        \cup SHAPES_ALL_LAYOUTS


-----------------------------------------------------------------------------
(* shapes.py : ShapeInstance *)

ShapeInstance(template, current_layout, current_rotation) ==
    [template |-> template, current_layout |-> current_layout,
     current_rotation |-> current_rotation]

get_current_grid(inst) ==
    layout_rotated(inst.template.layouts[inst.current_layout], inst.current_rotation)

\* ShapeInstance.fill_grid: the cells of the bounding box that are in the
\* layout, each mapped to the template's name
ShapeInstance_fill_grid(inst) ==
    LET lay == get_current_grid(inst)
        min_row == Min({p[1] : p \in lay})
        min_col == Min({p[2] : p \in lay})
        max_row == Max({p[1] : p \in lay})
        max_col == Max({p[2] : p \in lay})
    IN  [p \in {q \in (min_row .. max_row) \X (min_col .. max_col) : q \in lay}
            |-> inst.template.name]

-----------------------------------------------------------------------------
(* iq_solver.py : Board *)

\* Board(shape_board): no placement yet (the defaultdict has no key)
EmptyBoard(shape_board) == [shape_board |-> shape_board, placements |-> <<>>]

\* board.placements[anchor].append(inst) on the defaultdict(list)
PlacementsAppend(b, anchor, inst) ==
    [b EXCEPT !.placements =
        IF anchor \in DOMAIN b.placements
        THEN [b.placements EXCEPT ![anchor] = Append(@, inst)]
        ELSE (anchor :> <<inst>>) @@ b.placements]

\* the (anchor, index) pairs naming the ShapeInstances on a board
PlacedAt(b) ==
    UNION {{<<a, i>> : i \in 1 .. Len(b.placements[a])} : a \in DOMAIN b.placements}

\* the absolute cells one ShapeInstance anchored at `anchor` covers
AbsoluteCells(anchor, inst) ==
    {<<anchor[1] + p[1], anchor[2] + p[2]>> : p \in DOMAIN ShapeInstance_fill_grid(inst)}

\* Board.fill_grid: absolute cell -> set of the names covering it
Board_fill_grid(b) ==
    LET insts == {<<a, b.placements[a][i]>> : <<a, i>> \in PlacedAt(b)}
        keys  == UNION {AbsoluteCells(ai[1], ai[2]) : ai \in insts}
    IN  [cell \in keys |->
            {ai[2].template.name : ai \in {aj \in insts : cell \in AbsoluteCells(aj[1], aj[2])}}]

\* the order of Python's tuples of two ints
CellLess(p, q) == p[1] < q[1] \/ (p[1] = q[1] /\ p[2] < q[2])

\* sorted(list(S)): the i-th entry is the cell with i - 1 cells below it
sorted(S) ==
    TheOnly({ [i \in 1 .. Cardinality(T) |->
                CHOOSE p \in T : Cardinality({q \in T : CellLess(q, p)}) = i - 1] :
              T \in {S} })

\* Board.occupied_cells
occupied_cells(b) == sorted(DOMAIN Board_fill_grid(b))

\* Board.is_valid_placement
is_valid_placement(b) ==
    LET grid == Board_fill_grid(b)
    IN  \A cell \in DOMAIN grid :
            /\ ~(Cardinality(grid[cell]) > 1)
            /\ ~(cell[1] < 0 \/ cell[1] >= b.shape_board[1])
            /\ ~(cell[2] < 0 \/ cell[2] >= b.shape_board[2])

\* iq_solver.py : get_occupied_cells (on a default Board, whose shape plays no
\* part in fill_grid)
get_occupied_cells(shape_template, layout_idx, rotation, row, col) ==
    LET b == PlacementsAppend(EmptyBoard(<<5, 10>>), <<row, col>>,
                              ShapeInstance(shape_template, layout_idx, rotation))
    IN  sorted(DOMAIN Board_fill_grid(b))

-----------------------------------------------------------------------------
(* The inputs the operations are exercised on *)

Template(name, layout_0, layout_1) ==
    [name |-> name, layouts |-> (0 :> layout_0 @@ 1 :> layout_1)]

DominoH == {<<0,0>>, <<0,1>>}
DominoV == {<<0,0>>, <<1,0>>}
Ell     == {<<0,0>>, <<1,0>>, <<1,1>>}
EllMirror == {<<0,1>>, <<1,0>>, <<1,1>>}
Mono    == {<<0,0>>}

TPL_A  == Template("a", DominoH, Ell)
TPL_B  == Template("b", DominoV, Ell)
\* a second template carrying the name of TPL_A
TPL_A2 == Template("a", Ell, EllMirror)
\* the template of the obstacles already on init_board
TPL_P  == Template("p", Mono, Mono)

Templates == {TPL_A, TPL_B, TPL_A2}

layout_versions == {0, 1}
rotations == VALID_ROTATIONS

\* the board dimensions (rows, cols) tried
BoardShapes ==
    {rc \in (1 .. MaxCells) \X (1 .. MaxCells) : rc[1] * rc[2] <= MaxCells}

BoardCells(shape_board) == (0 .. shape_board[1] - 1) \X (0 .. shape_board[2] - 1)

-----------------------------------------------------------------------------
(* Values of the variables an exercise does not use *)

RotIdle == layout0 = {} /\ layout = {} /\ applied = <<>>
BoardIdle == board = EmptyBoard(<<0, 0>>) /\ valid = <<>>
MipIdle ==
    /\ init_board = EmptyBoard(<<0, 0>>)
    /\ shapes_to_place = <<>>
    /\ max_solutions = 0
    /\ allow_holes = FALSE
    /\ pc = "idle"
    /\ problem = {}
    /\ status = "unset"
    /\ x = {}
    /\ selected_positions = <<>>
    /\ solutions = <<>>
    /\ used_solutions_cuts = <<>>
    /\ first_status = "unset"
    /\ built_problem = {}
    /\ result = [kind |-> "running", boards |-> <<>>]

BruteIdle == brute_force_result = [kind |-> "running", boards |-> <<>>]

-----------------------------------------------------------------------------
(* iq_solver.py : mip_solver, the model built *)

Range(s) == TheOnly({ {t[i] : i \in DOMAIN t} : t \in {s} })

\* shape_name_map: a later shape of the list replaces an earlier one of the
\* same name
shape_name_map(shapes) ==
    [name \in {shapes[i].name : i \in DOMAIN shapes} |->
        shapes[Max({i \in DOMAIN shapes : shapes[i].name = name})]]

\* shape_names: the keys of shape_name_map
shape_names(shapes) == DOMAIN shape_name_map(shapes)

\* the decision variables x[shape][layout][rotation][row][col] of one shape
\* name, each a tuple <<shape, layout, rotation, row, col>>
XVars(shape, shape_board) ==
    {<<shape, lay, rotation, rc[1], rc[2]>> :
        lay \in layout_versions, rotation \in rotations, rc \in BoardCells(shape_board)}

\* the decision variables of every shape name
AllXVars(shapes, shape_board) ==
    UNION {XVars(shape, shape_board) : shape \in shape_names(shapes)}

\* the cells the placement a variable stands for covers: what the calls of
\* get_occupied_cells on lines 238 and 287 return
occupied_points(v, shapes) ==
    Range(get_occupied_cells(shape_name_map(shapes)[v[1]], v[2], v[3], v[4], v[5]))

\* occupied_points of every variable, as pairs <<variable, cells>>
PointsTable(shapes, shape_board) ==
    {<<v, occupied_points(v, shapes)>> : v \in AllXVars(shapes, shape_board)}

\* An assignment of the binary variables x is written as the set X of the
\* variables it values 1.

\* Constraint 1: each piece must be placed exactly once
Constraint1(X, shape) == Cardinality({v \in X : v[1] = shape}) = 1

\* Constraint 2: only one layout version per piece
Constraint2(X, shape) ==
    \A lay \in layout_versions :
        Cardinality({v \in X : v[1] = shape /\ v[2] = lay}) <= 1

\* Constraint 3: only one rotation per layout version
Constraint3(X, shape) ==
    \A lay \in layout_versions, rotation \in rotations :
        Cardinality({v \in X : v[1] = shape /\ v[2] = lay /\ v[3] = rotation}) <= 1

\* Constraint 4: the variable whose placement covers `points` is forced to 0
\* when one of them is out of the bounds of the board
ForcedZero(points, shape_board) ==
    \E cell \in points :
        ~(/\ 0 <= cell[1] /\ cell[1] < shape_board[1]
          /\ 0 <= cell[2] /\ cell[2] < shape_board[2])

\* occupied_already: 1 on the cells of the board init_board.occupied_cells() lists
occupied_already(b) ==
    TheOnly({ [cell \in BoardCells(b.shape_board) |-> IF cell \in occ THEN 1 ELSE 0] :
              occ \in {Range(occupied_cells(b))} })

\* covering_configs of lines 280-296: the variables whose placement covers the cell
covering_configs(cell, table) == {p[1] : p \in {q \in table : cell \in q[2]}}

\* the constraints Link_y_Cell of lines 299-307, one per cell, each written
\* <<cell, occupied_already[cell], covering_configs>>
LinkConstraints(b, table) ==
    TheOnly({ {<<cell, occupied[cell], covering_configs(cell, table)>> :
                    cell \in BoardCells(b.shape_board)} :
              occupied \in {occupied_already(b)} })

\* the value Link_y_Cell gives y[cell] under the assignment X
Y(X, link) == link[2] + Cardinality(X \cap link[3])

\* MustCover_Cell: y == 1, added when allow_holes is false
MustCover(X, link, holes) == ~holes => Y(X, link) = 1

\* y is binary, and No_Overlap_Cell: y <= 1
NoOverlap(X, link) == Y(X, link) \in {0, 1}

\* the subsets of S of at most k elements
RECURSIVE SubsetsUpTo(_, _)
SubsetsUpTo(S, k) ==
    IF k = 0 THEN {{}}
    ELSE TheOnly({ smaller \cup {T \cup {e} : T \in smaller, e \in S} :
                   smaller \in {SubsetsUpTo(S, k - 1)} })

\* the assignments of one shape's variables that constraints 1 to 4 admit
ShapeAssignments(shape, table, shape_board) ==
    TheOnly({ {S \in SubsetsUpTo(free, MaxOnes) :
                    Constraint1(S, shape) /\ Constraint2(S, shape) /\ Constraint3(S, shape)} :
              free \in {{p[1] : p \in {q \in table :
                            q[1][1] = shape /\ ~ForcedZero(q[2], shape_board)}}} })

\* the unions of one assignment per shape name
RECURSIVE Combine(_, _, _)
Combine(names, table, shape_board) ==
    IF names = {} THEN {{}}
    ELSE TheOnly({ {S \cup T : S \in ShapeAssignments(name, table, shape_board),
                               T \in Combine(names \ {name}, table, shape_board)} :
                   name \in {CHOOSE n \in names : TRUE} })

\* the LpProblem as built on lines 177-314: the assignments of x (with at most
\* MaxOnes ones per shape) that satisfy every constraint added
BuiltProblem(b, shapes, holes) ==
    TheOnly({ TheOnly({ {X \in Combine(shape_names(shapes), table, b.shape_board) :
                            \A link \in links :
                                NoOverlap(X, link) /\ MustCover(X, link, holes)} :
                        links \in {LinkConstraints(b, table)} }) :
              table \in {PointsTable(shapes, b.shape_board)} })

-----------------------------------------------------------------------------
(* iq_solver.py : mip_solver, the enumeration loop *)

\* the order in which the read-back visits the variables of one shape
VarLess(v, w) ==
    \/ v[2] < w[2]
    \/ v[2] = w[2] /\ v[3] < w[3]
    \/ v[2] = w[2] /\ v[3] = w[3] /\ v[4] < w[4]
    \/ v[2] = w[2] /\ v[3] = w[3] /\ v[4] = w[4] /\ v[5] < w[5]

\* the variables of one shape, in the order the loops of lines 350-353 visit them
InVisitOrder(S) ==
    TheOnly({ [i \in 1 .. Cardinality(T) |->
                CHOOSE v \in T : Cardinality({w \in T : VarLess(w, v)}) = i - 1] :
              T \in {S} })

\* the read-back of lines 347-358: for each shape of the list, in order, the
\* variables of its name whose value is 1
RECURSIVE ReadBack(_, _)
ReadBack(X, shapes) ==
    IF shapes = <<>> THEN <<>>
    ELSE InVisitOrder({v \in X : v[1] = Head(shapes).name}) \o ReadBack(X, Tail(shapes))

\* lines 363-367: a copy of init_board with one ShapeInstance appended for each
\* selected position
RECURSIVE WithPlacements(_, _, _)
WithPlacements(b, selected, shapes) ==
    IF selected = <<>> THEN b
    ELSE LET v == Head(selected)
         IN  TheOnly({ WithPlacements(new_board, Tail(selected), shapes) :
                new_board \in {PlacementsAppend(b, <<v[4], v[5]>>,
                    ShapeInstance(shape_name_map(shapes)[v[1]], v[2], v[3]))} })

\* the left-hand side of the cut: lpSum of x over selected_positions
CutSum(X, selected) == Cardinality({i \in DOMAIN selected : selected[i] \in X})

\* the cut: a mutation that forbids every chosen position, not their conjunction
CutHolds_NoneChosen(X, selected) == CutSum(X, selected) <= 0

\* the cut: a mutation whose bound is the count itself
CutHolds_OffByOne(X, selected) == CutSum(X, selected) <= Len(selected)

\* the cut of lines 376-384: sum(x of the chosen positions) <= count - 1
CutHolds(X, selected) == CutSum(X, selected) <= Len(selected) - 1

\* the test of line 369: a mutation that stops one solution late
ReachedMax_Late(n, max) == n > max

\* the test of line 369
ReachedMax(n, max) == n >= max

\* the init_board arguments tried: an empty board, or one whose cell (0,0) holds
\* an obstacle
InitBoards ==
    {EmptyBoard(sb) : sb \in BoardShapes}
        \cup {PlacementsAppend(EmptyBoard(sb), <<0, 0>>, ShapeInstance(TPL_P, 0, 0)) :
                sb \in BoardShapes}

\* the shapes_to_place arguments tried
RECURSIVE SeqsUpTo(_, _)
SeqsUpTo(S, n) ==
    IF n = 0 THEN {<<>>}
    ELSE LET shorter == SeqsUpTo(S, n - 1)
         IN  shorter \cup {Append(q, e) : q \in shorter, e \in S}

\* every list of no, one or two templates: with the two names of Templates a
\* longer list can only repeat a name once more
ShapeLists == SeqsUpTo(Templates, 2)

Init ==
    /\ init_board \in InitBoards
    /\ shapes_to_place \in ShapeLists
    /\ max_solutions \in 1 .. MaxSolutions
    /\ allow_holes \in BOOLEAN
    /\ pc = "build"
    /\ problem = {}
    /\ status = "unset"
    /\ x = {}
    /\ selected_positions = <<>>
    /\ solutions = <<>>
    /\ used_solutions_cuts = <<>>
    /\ first_status = "unset"
    /\ built_problem = {}
    /\ result = [kind |-> "running", boards |-> <<>>]
    /\ RotIdle
    /\ BoardIdle
    /\ BruteIdle

args == <<init_board, shapes_to_place, max_solutions, allow_holes>>

\* lines 172-336: the variables and constraints of the problem
BuildModel ==
    /\ pc = "build"
    /\ problem' = BuiltProblem(init_board, shapes_to_place, allow_holes)
    /\ built_problem' = problem'
    /\ pc' = "solve"
    /\ UNCHANGED <<args, status, x, selected_positions, solutions,
                   used_solutions_cuts, first_status, result, rotvars, boardvars, brutevars>>

\* lines 340-344: a mutation that goes round the loop again where the code breaks
SolveInfeasible_Continue ==
    /\ pc = "solve"
    /\ problem = {}
    /\ status' = "Infeasible"
    /\ first_status' = IF first_status = "unset" THEN status' ELSE first_status
    /\ pc' = "solve"
    /\ UNCHANGED <<args, built_problem, problem, x, selected_positions, solutions,
                   used_solutions_cuts, result, rotvars, boardvars, brutevars>>

\* lines 340-344, a solve that finds no assignment: the loop is left
SolveInfeasible ==
    /\ pc = "solve"
    /\ problem = {}
    /\ status' = "Infeasible"
    /\ first_status' = IF first_status = "unset" THEN status' ELSE first_status
    /\ pc' = "return"
    /\ UNCHANGED <<args, built_problem, problem, x, selected_positions, solutions,
                   used_solutions_cuts, result, rotvars, boardvars, brutevars>>

\* lines 340-344, a solve that finds an assignment.  The backend is outside the
\* repository: it is taken to be exact (Optimal exactly when some assignment
\* satisfies every constraint, a cut without variables included) and free to
\* return any assignment the problem admits.
SolveOptimal ==
    /\ pc = "solve"
    /\ problem # {}
    /\ status' = "Optimal"
    /\ x' \in problem
    /\ first_status' = IF first_status = "unset" THEN status' ELSE first_status
    /\ pc' = "extract"
    /\ UNCHANGED <<args, built_problem, problem, selected_positions, solutions,
                   used_solutions_cuts, result, rotvars, boardvars, brutevars>>

\* lines 346-370: read-back, the new Board, and the test on max_solutions
Extract ==
    /\ pc = "extract"
    /\ selected_positions' = ReadBack(x, shapes_to_place)
    /\ solutions' = Append(solutions,
                           WithPlacements(init_board, selected_positions', shapes_to_place))
    /\ pc' = IF ReachedMax(Len(solutions'), max_solutions) THEN "return" ELSE "cut"
    /\ UNCHANGED <<args, built_problem, problem, status, x, used_solutions_cuts, first_status, result,
                   rotvars, boardvars, brutevars>>

\* lines 372-386: the cut that excludes the solution just found
AddCut ==
    /\ pc = "cut"
    /\ problem' = {X \in problem : CutHolds(X, selected_positions)}
    /\ used_solutions_cuts' = Append(used_solutions_cuts, Len(solutions))
    /\ pc' = "solve"
    /\ UNCHANGED <<args, built_problem, status, x, selected_positions, solutions, first_status, result,
                   rotvars, boardvars, brutevars>>

\* lines 389-392: a mutation that returns the list even when it is empty
ReturnValue_AlwaysList(sols) == [kind |-> "list", boards |-> sols]

\* lines 389-392: None when no solution was collected, else the list
ReturnValue(sols) ==
    IF sols = <<>>
    THEN [kind |-> "None", boards |-> <<>>]
    ELSE [kind |-> "list", boards |-> sols]

\* lines 388-392
Return ==
    /\ pc = "return"
    /\ result' = ReturnValue(solutions)
    /\ pc' = "done"
    /\ UNCHANGED <<args, built_problem, problem, status, x, selected_positions, solutions,
                   used_solutions_cuts, first_status, rotvars, boardvars, brutevars>>

\* the steps of the while loop of lines 338-386, and the return that follows it
Loop == SolveInfeasible \/ SolveOptimal \/ Extract \/ AddCut \/ Return

Next == BuildModel \/ Loop

Spec == Init /\ [][Next]_vars

\* the loop is sequential code: once entered, a step of it that can be taken
\* is taken (problem.solve() is taken to return)
FairSpec == Spec /\ WF_vars(Loop)

-----------------------------------------------------------------------------
(* iq_solver.py : brute_force_solver *)

RECURSIVE Pow(_, _)
Pow(base, e) == IF e = 0 THEN 1 ELSE base * Pow(base, e - 1)

\* lines 108-112: placement_locations[k], rows outermost (k counted from 0)
placement_locations(k, shape_board) == <<k \div shape_board[2], k % shape_board[2]>>

\* lines 113-116: single_shape_combo_set[j], the j-th element (from 0) of
\* product(placement_locations, [0, 1], [0, 90, 180, 270]), written
\* <<placement, layout, rotation>>
single_shape_combo_set(j, shape_board) ==
    <<placement_locations(j \div 8, shape_board), (j \div 4) % 2, (j % 4) * 90>>

\* len(single_shape_combo_set)
LenSingle(shape_board) == shape_board[1] * shape_board[2] * 8

\* line 119: combos_all[i], the i-th element (from 0) of
\* product(single_shape_combo_set, repeat=n): the part of the first shape
\* varies slowest
combos_all(i, n, shape_board) ==
    [m \in 1 .. n |->
        single_shape_combo_set((i \div Pow(LenSingle(shape_board), n - m))
                                    % LenSingle(shape_board), shape_board)]

\* len(combos_all)
LenCombos(n, shape_board) == Pow(LenSingle(shape_board), n)

\* lines 126-133: board_trial, a copy of init_board with one ShapeInstance
\* appended per shape of the list, the m-th at the m-th part of the combo
RECURSIVE board_trial(_, _, _, _)
board_trial(b, shapes, combo, m) ==
    IF m > Len(shapes) THEN b
    ELSE TheOnly({ board_trial(next_board, shapes, combo, m + 1) :
            next_board \in {PlacementsAppend(b, combo[m][1],
                                ShapeInstance(shapes[m], combo[m][2], combo[m][3]))} })

\* lines 105-147: the trial board of the first combination, in the order of
\* combos_all, whose is_valid_placement() holds; None when there is none
brute_force_solver(b, shapes) ==
    TheOnly({ IF found = {}
              THEN [kind |-> "None", boards |-> <<>>]
              ELSE [kind |-> "Board",
                    boards |-> <<board_trial(b, shapes,
                                    combos_all(Min(found), Len(shapes), b.shape_board), 1)>>] :
        found \in {{i \in 0 .. LenCombos(Len(shapes), b.shape_board) - 1 :
                        is_valid_placement(board_trial(b, shapes,
                            combos_all(i, Len(shapes), b.shape_board), 1))}} })

-----------------------------------------------------------------------------
(* brute_force_solver and mip_solver called on the same arguments *)

\* no two shapes of the list carry the same name
DistinctNames(shapes) ==
    \A i \in DOMAIN shapes, j \in DOMAIN shapes : i # j => shapes[i].name # shapes[j].name

\* the init_board arguments tried: those of InitBoards, and the boards on
\* which the piece already placed is a TPL_A (lying flat in (0,0), (0,1))
OracleInitBoards ==
    InitBoards
        \cup {PlacementsAppend(EmptyBoard(sb), <<0, 0>>, ShapeInstance(TPL_A, 0, 0)) :
                sb \in {rc \in BoardShapes : rc[2] >= 2}}

\* both solvers are given a valid init_board and a list of distinctly named
\* shapes; mip_solver is called with allow_holes=True
InitOracle ==
    /\ init_board \in {b \in OracleInitBoards : is_valid_placement(b)}
    /\ shapes_to_place \in {shapes \in ShapeLists : DistinctNames(shapes)}
    /\ max_solutions \in 1 .. MaxSolutions
    /\ allow_holes = TRUE
    /\ pc = "build"
    /\ problem = {}
    /\ status = "unset"
    /\ x = {}
    /\ selected_positions = <<>>
    /\ solutions = <<>>
    /\ used_solutions_cuts = <<>>
    /\ first_status = "unset"
    /\ built_problem = {}
    /\ result = [kind |-> "running", boards |-> <<>>]
    /\ RotIdle
    /\ BoardIdle
    /\ BruteIdle

\* the call brute_force_solver(init_board, shapes_to_place)
BruteForce ==
    /\ brute_force_result.kind = "running"
    /\ brute_force_result' = brute_force_solver(init_board, shapes_to_place)
    /\ UNCHANGED <<rotvars, boardvars, mipvars>>

\* the oracle is called first, mip_solver after it returned
NextOracle == BruteForce \/ (brute_force_result.kind # "running" /\ Next)

SpecOracle == InitOracle /\ [][NextOracle]_vars

-----------------------------------------------------------------------------
(* layout_rotated applied repeatedly to one footprint *)

InitRot ==
    /\ layout0 \in Footprints
    /\ layout = layout0
    /\ applied = <<>>
    /\ BoardIdle
    /\ MipIdle
    /\ BruteIdle

Rotate(angle) ==
    /\ Len(applied) < MaxTurns
    /\ layout' = layout_rotated(layout, angle)
    /\ applied' = Append(applied, angle)
    /\ UNCHANGED <<layout0, boardvars, mipvars, brutevars>>

NextRot == \E angle \in VALID_ROTATIONS : Rotate(angle)

SpecRot == InitRot /\ [][NextRot]_vars

\* layout_rotated takes any TPointSet: neither ShapeTemplate nor the method
\* checks that the layout it is given touches (0,0).  The footprints below are
\* every non-empty set of offsets of a FootSide x FootSide square, normalized
\* or not (an empty layout makes min() raise for every angle but 0).
AnyFootprints == (SUBSET ((0 .. FootSide - 1) \X (0 .. FootSide - 1))) \ {{}}

InitRotAny ==
    /\ layout0 \in AnyFootprints
    /\ layout = layout0
    /\ applied = <<>>
    /\ BoardIdle
    /\ MipIdle
    /\ BruteIdle

SpecRotAny == InitRotAny /\ [][NextRot]_vars

-----------------------------------------------------------------------------
(* Board.is_valid_placement applied to a board built by appends *)

\* the anchors tried: the cells of the board, and one above it
Anchors(shape_board) == BoardCells(shape_board) \cup {<<-1, 0>>}

InitBoard ==
    /\ \E shape_board \in BoardShapes : board = EmptyBoard(shape_board)
    /\ valid = <<>>
    /\ RotIdle
    /\ MipIdle
    /\ BruteIdle

\* board.placements[anchor].append(ShapeInstance(template, layout, rotation))
PlaceShape ==
    /\ valid = <<>>
    /\ Cardinality(PlacedAt(board)) < MaxPlaced
    /\ \E template \in Templates, lay \in layout_versions, rotation \in rotations,
          anchor \in Anchors(board.shape_board) :
            board' = PlacementsAppend(board, anchor, ShapeInstance(template, lay, rotation))
    /\ UNCHANGED <<valid, rotvars, mipvars, brutevars>>

CheckValid ==
    /\ valid = <<>>
    /\ valid' = <<is_valid_placement(board)>>
    /\ UNCHANGED <<board, rotvars, mipvars, brutevars>>

NextBoard == PlaceShape \/ CheckValid

SpecBoard == InitBoard /\ [][NextBoard]_vars

-----------------------------------------------------------------------------
(* Properties of the rotation *)

\* C10: rotation is closed of order 4 on a normalized footprint: four
\* successive rotations by 90 give back the footprint, and any succession of
\* rotations equals the single rotation by the sum of the angles modulo 360
\* (two rotations by 90 are one by 180, and so on).
RotationCyclicOrder4 ==
    /\ applied = <<90, 90, 90, 90>> => layout = layout0
    /\ layout = layout_rotated(layout0, SumSeq(applied) % 360)

\* four quarter turns of a footprint that a quarter turn changes
RotationCyclicOrder4_Witness ==
    /\ applied = <<90, 90, 90, 90>>
    /\ layout = layout0
    /\ layout_rotated(layout0, 90) # layout0
    /\ layout_rotated(layout0, 180) # layout0

\* C11: for every footprint and every angle of VALID_ROTATIONS the result of
\* layout_rotated is renormalized (its minimum row and its minimum column are
\* 0) and has as many cells as the footprint it was given.
RotatedIsRenormalized ==
    applied # <<>> =>
        /\ IsNormalized(layout)
        /\ Cardinality(layout) = Cardinality(layout0)

\* C11 after a rotation by 90, 180 or 270, or on a footprint that was
\* normalized to begin with: only the angle 0 hands a footprint back as given
RotatedIsRenormalizedUnlessUntouched ==
    (applied # <<>> /\ (IsNormalized(layout0) \/ \E i \in DOMAIN applied : applied[i] # 0)) =>
        /\ IsNormalized(layout)
        /\ Cardinality(layout) = Cardinality(layout0)

-----------------------------------------------------------------------------
(* Properties of the Board *)

\* the cells covered by the instance at <<anchor, index>> of the board
CellsOf(b, ai) == AbsoluteCells(ai[1], b.placements[ai[1]][ai[2]])

\* two ShapeInstances of the board cover a common cell
SomeOverlap(b) ==
    \E ai \in PlacedAt(b), aj \in PlacedAt(b) :
        ai # aj /\ CellsOf(b, ai) \cap CellsOf(b, aj) # {}

\* every covered cell lies on the board
AllInBounds(b) ==
    \A ai \in PlacedAt(b) : CellsOf(b, ai) \subseteq BoardCells(b.shape_board)

\* C7: a board holding two placements whose absolute cell sets intersect is
\* not a valid placement; is_valid_placement() is true exactly when every
\* covered cell has one covering shape and lies on the board.
OverlapIsInvalid ==
    valid # <<>> =>
        /\ SomeOverlap(board) => valid[1] = FALSE
        /\ valid[1] = (~SomeOverlap(board) /\ AllInBounds(board))

-----------------------------------------------------------------------------
(* Properties of mip_solver *)

\* the ShapeInstances mip_solver added to a returned board
NewlyPlaced(b) == PlacedAt(b) \ PlacedAt(init_board)

\* the cells init_board occupies
PreOccupied == Range(occupied_cells(init_board))

\* C1: the list of solutions never holds two Boards with the same (shape,
\* layout, rotation, anchor) assignment for every shape; every Board is a copy
\* of init_board plus the selected placements, so equal assignments are equal
\* Boards.
NoRepeatedAssignment ==
    /\ \A i \in DOMAIN solutions, j \in DOMAIN solutions : i # j => solutions[i] # solutions[j]
    /\ \A i \in DOMAIN result.boards, j \in DOMAIN result.boards :
            i # j => result.boards[i] # result.boards[j]

\* two different solutions returned, which cover the same cells
NoRepeatedAssignment_Witness ==
    /\ result.kind = "list"
    /\ Len(result.boards) >= 2
    /\ result.boards[1] # result.boards[2]
    /\ Board_fill_grid(result.boards[1]) = Board_fill_grid(result.boards[2])

\* C2: at most max_solutions results are collected and returned, and once a
\* solve reports a status that is neither Optimal nor Feasible the loop has
\* halted for good: no solve step follows and no Board is appended.
AtMostMaxAndHaltsOnInfeasible ==
    /\ [](/\ Len(solutions) <= max_solutions
          /\ Len(result.boards) <= max_solutions)
    /\ [][status \notin {"Optimal", "Feasible", "unset"} =>
            /\ ~SolveOptimal
            /\ ~SolveInfeasible
            /\ solutions' = solutions
            /\ status' = status]_vars

\* the loop stopped by an infeasible solve after it had collected a solution,
\* short of max_solutions
AtMostMaxAndHaltsOnInfeasible_Witness ==
    /\ pc = "done"
    /\ status = "Infeasible"
    /\ first_status = "Optimal"
    /\ Len(result.boards) = 1
    /\ max_solutions = 2

\* C3: the enumeration loop always terminates: once the first solve is about to
\* be issued, the loop is eventually left and mip_solver returns.
LoopTerminates == (pc = "solve") ~> (pc = "done")

\* a run that ended after a cut was added and a later solve was infeasible
LoopTerminates_Witness ==
    /\ pc = "done"
    /\ used_solutions_cuts # <<>>
    /\ status = "Infeasible"

\* C4: every Board returned is a valid packing: no cell is covered by two
\* newly placed shapes, no newly placed shape covers a cell init_board
\* occupies, and every cell a newly placed shape covers is on the board.
ReturnedBoardsAreValidPackings ==
    \A k \in DOMAIN solutions :
        LET b == solutions[k]
        IN  \A ai \in NewlyPlaced(b) :
                /\ CellsOf(b, ai) \subseteq BoardCells(b.shape_board)
                /\ CellsOf(b, ai) \cap PreOccupied = {}
                /\ \A aj \in NewlyPlaced(b) :
                        aj # ai => CellsOf(b, ai) \cap CellsOf(b, aj) = {}

\* C4 on the lists whose names are all different
ValidPackingsWhenNamesDistinct ==
    DistinctNames(shapes_to_place) => ReturnedBoardsAreValidPackings

\* the number of ShapeInstances of a board that cover a cell
TimesCovered(b, cell) == Cardinality({ai \in PlacedAt(b) : cell \in CellsOf(b, ai)})

\* C5: without allow_holes every Board returned covers every cell of the board
\* exactly once (occupied_cells() has rows*cols entries); with allow_holes
\* cells may stay uncovered, and still none is covered twice.
HolesOnlyWhenAllowed ==
    \A k \in DOMAIN solutions :
        LET b == solutions[k]
            cells == BoardCells(b.shape_board)
        IN  /\ ~allow_holes =>
                /\ \A cell \in cells : TimesCovered(b, cell) = 1
                /\ Len(occupied_cells(b)) = b.shape_board[1] * b.shape_board[2]
            /\ allow_holes => \A cell \in cells : TimesCovered(b, cell) <= 1

\* C5 on the lists whose names are all different
HolesOnlyWhenAllowedAndNamesDistinct ==
    DistinctNames(shapes_to_place) => HolesOnlyWhenAllowed

\* the board the read-back is expected to build: the i-th selected position
\* places the i-th shape of the list
RECURSIVE ExpectedBoard(_, _, _)
ExpectedBoard(b, selected, shapes) ==
    IF selected = <<>> \/ shapes = <<>> THEN b
    ELSE LET v == Head(selected)
         IN  TheOnly({ ExpectedBoard(new_board, Tail(selected), Tail(shapes)) :
                new_board \in {PlacementsAppend(b, <<v[4], v[5]>>,
                    ShapeInstance(Head(shapes), v[2], v[3]))} })

\* C6: in every Board returned each shape of shapes_to_place is placed exactly
\* once: the read-back finds one variable valued 1 for each shape of the list
\* and adds one ShapeInstance of that shape at that variable's layout, rotation
\* and anchor.
EachShapePlacedOnce ==
    (pc \in {"cut", "return", "done"} /\ solutions # <<>>) =>
        /\ Len(selected_positions) = Len(shapes_to_place)
        /\ \A i \in DOMAIN shapes_to_place :
                /\ Cardinality({v \in x : v[1] = shapes_to_place[i].name}) = 1
                /\ selected_positions[i] \in x
                /\ selected_positions[i][1] = shapes_to_place[i].name
        /\ solutions[Len(solutions)]
                = ExpectedBoard(init_board, selected_positions, shapes_to_place)

\* C6 on the lists whose names are all different
EachShapePlacedOnceWhenNamesDistinct ==
    DistinctNames(shapes_to_place) => EachShapePlacedOnce

\* C8: a list of shapes in which two shapes share a name is rejected while the
\* model is built: no solve is attempted on it.
DuplicateNamesRejectedBeforeSolve ==
    status # "unset" => DistinctNames(shapes_to_place)

\* C9: None is returned exactly when the very first solve is not Optimal or
\* Feasible; otherwise the non-empty list of the solutions collected is
\* returned.
NoneIffFirstSolveInfeasible ==
    pc = "done" =>
        /\ result.kind \in {"None", "list"}
        /\ result.kind = "None" <=> first_status \notin {"Optimal", "Feasible"}
        /\ result.kind = "list" => result.boards # <<>> /\ result.boards = solutions

\* both outcomes of a run cut short by an infeasible solve: here a list
\* shorter than asked for
NoneIffFirstSolveInfeasible_Witness ==
    /\ pc = "done"
    /\ result.kind = "list"
    /\ status = "Infeasible"
    /\ Len(result.boards) < max_solutions

-----------------------------------------------------------------------------
(* Properties of brute_force_solver against mip_solver *)

\* the names of the pieces already on a board
PlacedNames(b) == {b.placements[ai[1]][ai[2]].template.name : ai \in PlacedAt(b)}

\* both solvers have returned
BothReturned == brute_force_result.kind # "running" /\ pc = "done"

\* C12: brute_force_solver is an oracle for mip_solver called with
\* allow_holes=True on a valid init_board and distinctly named shapes: it
\* returns a Board, the trial board of a combination whose
\* is_valid_placement() holds, if and only if mip_solver returns at least one
\* solution, and None exactly when mip_solver's first solve is infeasible.
BruteForceAgreesWithMip ==
    BothReturned =>
        /\ brute_force_result.kind = "Board"
                <=> (result.kind = "list" /\ Len(result.boards) >= 1)
        /\ brute_force_result.kind = "None"
                <=> (result.kind = "None" /\ first_status = "Infeasible")
        /\ brute_force_result.kind = "Board"
                => is_valid_placement(brute_force_result.boards[1])

\* C12 when no piece already on init_board carries the name of a shape to place
BruteForceAgreesWithMipOnFreshNames ==
    PlacedNames(init_board) \cap shape_names(shapes_to_place) = {}
        => BruteForceAgreesWithMip

-----------------------------------------------------------------------------
(* Properties of the enumeration as a whole *)

\* the feasible full assignments of the model built from the arguments
FeasibleAssignments == built_problem

\* the Board the loop builds from a full assignment
BoardOf(X) ==
    WithPlacements(init_board, ReadBack(X, shapes_to_place), shapes_to_place)

\* mip_solver returned min(N, max_solutions) different Boards, and the Board of
\* every feasible assignment when max_solutions >= N
AllReturned ==
    /\ pc = "done"
    /\ TheOnly({ /\ Len(result.boards) = Min({Cardinality(all), max_solutions})
                 /\ Cardinality(Range(result.boards)) = Len(result.boards)
                 /\ max_solutions >= Cardinality(all) =>
                        /\ Range(result.boards) = {BoardOf(X) : X \in all}
                        /\ Cardinality({BoardOf(X) : X \in all}) = Cardinality(all) :
                  all \in {FeasibleAssignments} })

\* C13: enumeration is complete: each cut removes exactly the full assignment
\* just found and no other; every Board collected is that of a feasible full
\* assignment; with N feasible full assignments mip_solver returns
\* min(N, max_solutions) Boards, and when max_solutions >= N every feasible
\* full assignment is eventually returned exactly once, no later than the
\* first infeasible solve.
EnumerationIsComplete ==
    /\ [][AddCut => (x \in problem /\ problem' = problem \ {x})]_vars
    /\ [][Extract => (x \in FeasibleAssignments
                        /\ solutions' = Append(solutions, BoardOf(x)))]_vars
    /\ [](status = "Infeasible" =>
            Len(solutions) = Cardinality(FeasibleAssignments))
    /\ [](pc = "done" => AllReturned)
    /\ (pc = "solve" /\ status = "unset") ~> AllReturned

\* a run asked for more solutions than there are: the one feasible assignment
\* was returned, a cut added, and the next solve was infeasible
EnumerationIsComplete_Witness ==
    /\ pc = "done"
    /\ status = "Infeasible"
    /\ used_solutions_cuts # <<>>
    /\ Len(result.boards) = Cardinality(FeasibleAssignments)
    /\ Len(result.boards) < max_solutions

=============================================================================
